---------------------------- MODULE Spec2Model ----------------------------
(***************************************************************************)
(* Model of the retrieval-augmented chatbot pipeline of the SIA RTW        *)
(* portal: extractKeywords, searchKnowledgeBase, generateChatbotResponse   *)
(* and saveMessages (src/src/lib/errors.ts, lines 613-857).                *)
(*                                                                         *)
(* A JavaScript string is modelled as a sequence of one-character strings. *)
(***************************************************************************)
EXTENDS Integers, Sequences, FiniteSets, TLC

VARIABLES
    phase,       \* position of the extractKeywords / searchKnowledgeBase call
    query,       \* argument of extractKeywords / searchKnowledgeBase
    keywords,    \* value returned by extractKeywords(query)
    documents,   \* the trainingDocument table
    results,     \* value returned by searchKnowledgeBase(query)
    apiKey,      \* whether process.env.ANTHROPIC_API_KEY is set
    conversations,  \* the chatbotConversation table
    messages,    \* the chatbotMessage table, in insertion order
    dbNow,       \* the timestamp the database gives the next insert
    requests,    \* the POST /api/chatbot/message requests and their locals
    providerCalls,  \* the requests made to anthropic.messages.create, in order
    rateLimitMap,   \* the Map of rateLimit: identifier -> {count, resetTime}
    now,         \* Date.now(), in milliseconds
    admissions,  \* observer: per user, when the current window of admitted
                 \* requests began and how many requests it admitted
    store,       \* the Map of checkRateLimit: identifier -> {count, resetTime}
    sweepDue     \* when the setInterval callback that sweeps store runs next

searchVars == <<phase, query, keywords, results>>
rateVars == <<rateLimitMap, now, admissions>>
storeVars == <<store, sweepDue>>
chatVars == <<apiKey, conversations, messages, dbNow, requests, providerCalls,
              rateLimitMap, now, admissions, store, sweepDue>>
vars == <<phase, query, keywords, documents, results,
          apiKey, conversations, messages, dbNow, requests, providerCalls,
          rateLimitMap, now, admissions, store, sweepDue>>

(***************************************************************************)
(* Generic helpers                                                         *)
(***************************************************************************)
Range(s) == {s[i] : i \in 1..Len(s)}

Min(a, b) == IF a <= b THEN a ELSE b

RECURSIVE Concat(_)
\* Concatenation of a sequence of sequences.
Concat(ss) == IF ss = <<>> THEN <<>> ELSE Head(ss) \o Concat(Tail(ss))

RECURSIVE SeqsUpTo(_, _)
\* All sequences over S of length at most n.
SeqsUpTo(S, n) ==
    IF n = 0 THEN {<<>>}
    ELSE LET shorter == SeqsUpTo(S, n - 1)
         IN  shorter \cup {Append(s, x) : s \in shorter, x \in S}

(***************************************************************************)
(* Characters: the classes used by toLowerCase and by the regular          *)
(* expressions /[^\w\s]/g and /\s+/ of extractKeywords.                    *)
(***************************************************************************)
UpperCase == <<"A","B","C","D","E","F","G","H","I","J","K","L","M",
               "N","O","P","Q","R","S","T","U","V","W","X","Y","Z">>

LowerCase == <<"a","b","c","d","e","f","g","h","i","j","k","l","m",
               "n","o","p","q","r","s","t","u","v","w","x","y","z">>

Digits == {"0","1","2","3","4","5","6","7","8","9"}

\* \w of a JavaScript regular expression: [A-Za-z0-9_]
IsWordChar(c) == c \in Range(UpperCase) \cup Range(LowerCase) \cup Digits \cup {"_"}

\* \s of a JavaScript regular expression (the white space used here)
IsSpace(c) == c \in {" ", "\t", "\n"}

\* String.prototype.toLowerCase on one character
LowerChar(c) ==
    IF c \in Range(UpperCase)
    THEN LowerCase[CHOOSE i \in 1..26 : UpperCase[i] = c]
    ELSE c

\* String.prototype.toLowerCase
toLowerCase(s) == [i \in 1..Len(s) |-> LowerChar(s[i])]

\* .replace(/[^\w\s]/g, ' ')
replaceNonWord(s) ==
    [i \in 1..Len(s) |-> IF IsWordChar(s[i]) \/ IsSpace(s[i]) THEN s[i] ELSE " "]

RECURSIVE SplitFrom(_, _, _, _, _)
\* Scan of s from position i: acc holds the finished pieces, cur the piece
\* being read, inRun says that the previous character was white space.
SplitFrom(s, i, acc, cur, inRun) ==
    IF i > Len(s) THEN Append(acc, cur)
    ELSE IF IsSpace(s[i])
         THEN IF inRun THEN SplitFrom(s, i + 1, acc, cur, TRUE)
                       ELSE SplitFrom(s, i + 1, Append(acc, cur), <<>>, TRUE)
         ELSE SplitFrom(s, i + 1, acc, Append(cur, s[i]), FALSE)

\* .split(/\s+/): "" gives [""], leading or trailing white space gives an
\* empty first or last piece.
splitWhitespace(s) == SplitFrom(s, 1, <<>>, <<>>, FALSE)

stopWords == {
    <<"t","h","e">>, <<"i","s">>, <<"a","t">>, <<"w","h","i","c","h">>,
    <<"o","n">>, <<"a">>, <<"a","n">>, <<"a","n","d">>, <<"o","r">>,
    <<"b","u","t">>, <<"i","n">>, <<"w","i","t","h">>, <<"t","o">>,
    <<"f","o","r">>, <<"o","f">>, <<"a","s">>, <<"b","y">>,
    <<"t","h","a","t">>, <<"t","h","i","s">>, <<"i","t">>,
    <<"f","r","o","m">>, <<"a","r","e">>, <<"w","a","s">>,
    <<"w","e","r","e">>, <<"b","e","e","n">>, <<"b","e">>,
    <<"h","a","v","e">>, <<"h","a","s">>, <<"h","a","d">>, <<"d","o">>,
    <<"d","o","e","s">>, <<"d","i","d">>, <<"w","i","l","l">>,
    <<"w","o","u","l","d">>, <<"c","o","u","l","d">>,
    <<"s","h","o","u","l","d">>, <<"m","a","y">>, <<"m","i","g","h","t">>,
    <<"c","a","n">> }

\* The filter predicate of extractKeywords
keepWord(word) == Len(word) > 2 /\ word \notin stopWords

extractKeywords(q) ==
    SelectSeq(splitWhitespace(replaceNonWord(toLowerCase(q))), keepWord)


(***************************************************************************)
(* Document bodies.  A body is the string  head \o "." ... "."  with pad   *)
(* filler dots after head, kept as the record [head, pad] so that bodies   *)
(* longer than the 1000 and 1500 character cut-offs stay small values.     *)
(* The operations below are the JavaScript string operations on it.        *)
(***************************************************************************)
Filler == "."

TextLen(t) == Len(t.head) + t.pad

CharAt(t, i) == IF i <= Len(t.head) THEN t.head[i] ELSE Filler

\* String.prototype.substring(0, n)
substring0(t, n) ==
    IF n <= Len(t.head)
    THEN [head |-> SubSeq(t.head, 1, n), pad |-> 0]
    ELSE [head |-> t.head, pad |-> Min(t.pad, n - Len(t.head))]

\* String.prototype.toLowerCase on a body (the filler has no case)
textToLowerCase(t) == [head |-> toLowerCase(t.head), pad |-> t.pad]

\* String.prototype.includes on a plain string
includes(hay, needle) ==
    \E i \in 0..(Len(hay) - Len(needle)) :
        \A j \in 1..Len(needle) : hay[i + j] = needle[j]

\* String.prototype.includes on a body.  Every window that starts behind
\* head holds filler only, so the one starting at Len(head) stands for them.
textIncludes(t, needle) ==
    \E i \in 0..Min(Len(t.head), TextLen(t) - Len(needle)) :
        \A j \in 1..Len(needle) : CharAt(t, i + j) = needle[j]

(***************************************************************************)
(* The trainingDocument table and prisma.trainingDocument.findMany         *)
(***************************************************************************)
\* A where clause without the isActive condition
everyDocument(docs) == Range(docs)

\* where: { isActive: true }
activeDocuments(docs) == {d \in Range(docs) : d.isActive}

\* { contains: keyword, mode: 'insensitive' } on content or on title
matchesKeyword(d, keyword) ==
    \/ textIncludes(textToLowerCase(d.content), toLowerCase(keyword))
    \/ includes(toLowerCase(d.title), toLowerCase(keyword))

\* where: { isActive: true, OR: searchConditions }
matchingDocuments(docs, kws) ==
    {d \in activeDocuments(docs) : \E k \in 1..Len(kws) : matchesKeyword(d, kws[k])}

RECURSIVE findManyDesc(_, _)
\* orderBy: { createdAt: 'desc' }, take: n.  Rows with equal createdAt come
\* in any order, so this is the set of the lists the query may return.
findManyDesc(rows, n) ==
    IF n = 0 \/ rows = {} THEN {<<>>}
    ELSE LET newest == {d \in rows : \A e \in rows : e.createdAt <= d.createdAt}
         IN  UNION {{<<d>> \o rest : rest \in findManyDesc(rows \ {d}, n - 1)}
                     : d \in newest}

(***************************************************************************)
(* searchKnowledgeBase                                                     *)
(***************************************************************************)
\* (mutant) the fallback query with the limit of the keyword query
FallbackTakeOfKeywordPath == 3 + 2

FallbackTake == 3

FallbackExcerptLen == 1000

\* (mutant) a limit one too large
KeywordTakeOffByOne == 5 + 1

KeywordTake == 5

\* (mutant) a cut-off one character too late
KeywordExcerptLenOffByOne == 1500 + 1

KeywordExcerptLen == 1500

\* A score is the fraction num / den (0.5 is 1/2).
ScoreLess(a, b) == a.num * b.den < b.num * a.den
ScoreEq(a, b) == a.num * b.den = b.num * a.den

\* matchCount: 2 for a keyword in the title, 1 for a keyword in the body
matchCount(d, kws) ==
    LET titleLower == toLowerCase(d.title)
        contentLower == textToLowerCase(d.content)
        RECURSIVE count(_)
        count(k) ==
            IF k > Len(kws) THEN 0
            ELSE (IF includes(titleLower, kws[k]) THEN 2 ELSE 0)
               + (IF textIncludes(contentLower, kws[k]) THEN 1 ELSE 0)
               + count(k + 1)
    IN  count(1)

\* (mutant) the quotient without Math.min(..., 1)
scoreUncapped(d, kws) == [num |-> matchCount(d, kws), den |-> Len(kws) * 2]

\* Math.min(matchCount / (keywords.length * 2), 1)
relevanceScore(d, kws) ==
    [num |-> Min(matchCount(d, kws), Len(kws) * 2), den |-> Len(kws) * 2]

\* The SearchResult built for one document.  docId is not a field of
\* SearchResult: it records which row the result was built from.
fallbackResult(d) ==
    [content |-> substring0(d.content, FallbackExcerptLen),
     title |-> d.title, type |-> d.documentType,
     score |-> [num |-> 1, den |-> 2], docId |-> d.id]

keywordResult(d, kws) ==
    [content |-> substring0(d.content, KeywordExcerptLen),
     title |-> d.title, type |-> d.documentType,
     score |-> relevanceScore(d, kws), docId |-> d.id]

\* (mutant) an unstable sort: x is put before the elements of equal score
insertPosReversingTies(rs, x) ==
    IF \E i \in 1..Len(rs) : ~ScoreLess(x.score, rs[i].score)
    THEN CHOOSE i \in 1..Len(rs) :
            /\ ~ScoreLess(x.score, rs[i].score)
            /\ \A j \in 1..(i - 1) : ScoreLess(x.score, rs[j].score)
    ELSE Len(rs) + 1

\* Where the stable sort puts x, the last element read, in the sorted list
\* rs: before the first element that the comparator
\* (a, b) => b.score - a.score orders after x, behind its equals.
insertPos(rs, x) ==
    IF \E i \in 1..Len(rs) : ScoreLess(rs[i].score, x.score)
    THEN CHOOSE i \in 1..Len(rs) :
            /\ ScoreLess(rs[i].score, x.score)
            /\ \A j \in 1..(i - 1) : ~ScoreLess(rs[j].score, x.score)
    ELSE Len(rs) + 1

RECURSIVE sortByScoreDesc(_)
\* .sort((a, b) => b.score - a.score); Array.prototype.sort is stable
sortByScoreDesc(rs) ==
    IF rs = <<>> THEN <<>>
    ELSE LET front == sortByScoreDesc(SubSeq(rs, 1, Len(rs) - 1))
             x == rs[Len(rs)]
             p == insertPos(front, x)
         IN  SubSeq(front, 1, p - 1) \o <<x>> \o SubSeq(front, p, Len(front))

\* The lists searchKnowledgeBase(q) may return on the table docs.
searchKnowledgeBase(q, docs) ==
    LET kws == extractKeywords(q)
    IN  IF Len(kws) = 0
        THEN {[i \in 1..Len(ds) |-> fallbackResult(ds[i])]
                : ds \in findManyDesc(activeDocuments(docs), FallbackTake)}
        ELSE {sortByScoreDesc([i \in 1..Len(ds) |-> keywordResult(ds[i], kws)])
                : ds \in findManyDesc(matchingDocuments(docs, kws), KeywordTake)}

(***************************************************************************)
(* generateChatbotResponse, createConversation, saveMessages and the POST  *)
(* handler of /api/chatbot/message.  A handler runs up to its next await   *)
(* in one step.                                                            *)
(***************************************************************************)
\* (mutant) a history window one turn too long
HistoryTakeOffByOne == 10 + 1

HistoryTake == 10

\* conversationId of a request body that carries none
NoConversationId == <<>>

\* The rows of one conversation
messagesOf(conversationId) ==
    {m \in Range(messages) : m.conversationId = conversationId}

\* Rows in createdAt-ascending order; rows of equal createdAt (the two rows
\* of one createMany) come in insertion order or in the reverse of it.
RECURSIVE orderAsc(_, _)
orderAsc(rows, tiesById) ==
    IF rows = {} THEN <<>>
    ELSE LET oldest == {m \in rows : \A n \in rows : m.createdAt <= n.createdAt}
             first == CHOOSE m \in oldest :
                         \A n \in oldest : IF tiesById THEN m.id <= n.id
                                                       ELSE m.id >= n.id
         IN  <<first>> \o orderAsc(rows \ {first}, tiesById)

\* include: { messages: { orderBy: { createdAt: 'asc' }, take: n } }
findMessagesAsc(rows, n) ==
    {SubSeq(ordered, 1, Min(n, Len(ordered)))
        : ordered \in {orderAsc(rows, t) : t \in BOOLEAN}}

\* messageHistory: the rows mapped to the provider's message format
messageHistory(rows) ==
    [i \in 1..Len(rows) |->
        [role |-> IF rows[i].role = "USER" THEN "user" ELSE "assistant",
         content |-> rows[i].content]]

\* context: the labelled excerpts, or the fixed sentence when there are none
buildContext(searchResults) ==
    IF Len(searchResults) > 0
    THEN [kind |-> "sources",
          blocks |-> [i \in 1..Len(searchResults) |->
                        [source |-> i, title |-> searchResults[i].title,
                         type |-> searchResults[i].type,
                         content |-> searchResults[i].content]]]
    ELSE [kind |-> "noDocuments", blocks |-> <<>>]

\* A catch block that gives every failure the same message
classifyCollapsing(hasStatus, status) == "Failed to generate response"

\* A catch block that takes an error without status for an outage
classifyStatuslessAsUnavailable(hasStatus, status) ==
    IF hasStatus /\ status = 401 THEN "Invalid API key"
    ELSE IF hasStatus /\ status = 429 THEN "API rate limit reached"
    ELSE IF ~hasStatus \/ status >= 500 THEN "Claude API is temporarily unavailable"
    ELSE "Failed to generate response"

\* The error thrown by the catch block for a failed provider call:
\* error.status is compared with 401, 429 and >= 500; an error without a
\* status (a timeout, a network failure, a TypeError) fails every test.
classifyProviderError(hasStatus, status) ==
    IF hasStatus /\ status = 401 THEN "Invalid API key"
    ELSE IF hasStatus /\ status = 429 THEN "API rate limit reached"
    ELSE IF hasStatus /\ status >= 500 THEN "Claude API is temporarily unavailable"
    ELSE "Failed to generate response"

\* What anthropic.messages.create may do
ProviderOutcomes ==
    {[kind |-> "response", content |-> c, hasStatus |-> FALSE, status |-> 200]
        : c \in {<<[type |-> "text", text |-> <<"o","k">>]>>,
                 <<[type |-> "tool_use", text |-> <<>>]>>,
                 <<>>}}
    \cup {[kind |-> "error", content |-> <<>>, hasStatus |-> TRUE, status |-> st]
            : st \in {400, 401, 429, 500, 503}}
    \cup {[kind |-> "error", content |-> <<>>, hasStatus |-> FALSE, status |-> 0]}

IdleRequest ==
    [pc |-> "idle", userId |-> "", conversationId |-> NoConversationId,
     message |-> <<>>, history |-> <<>>, searchResults |-> <<>>,
     response |-> <<>>, error |-> "", status |-> 0, body |-> "",
     at |-> 0]

\* setInterval(..., 5 * 60 * 1000)
SweepIntervalMs == 5 * 60 * 1000

\* The chat tables and requests of a process that has served no request
NoChat ==
    /\ apiKey = TRUE
    /\ conversations = {}
    /\ messages = <<>>
    /\ dbNow = 1
    /\ requests = <<>>
    /\ providerCalls = <<>>
    /\ rateLimitMap = <<>>
    /\ now = 0
    /\ admissions = <<>>
    /\ store = <<>>
    /\ sweepDue = SweepIntervalMs

\* A catch block that answers every error as the rate guard answers
postFailsAsTooManyRequests(r, err) ==
    [requests EXCEPT ![r].pc = "done", ![r].error = err, ![r].status = 429,
                     ![r].body = "Too many requests"]

\* The 429 response of POST to a request of userId that the rate guard refused
postRejects(r, userId) ==
    [requests EXCEPT ![r].pc = "done", ![r].userId = userId, ![r].status = 429,
                     ![r].body = "Too many requests", ![r].at = now]

\* The catch block of POST for an error that is no ZodError
postFails(r, err) ==
    [requests EXCEPT ![r].pc = "done", ![r].error = err, ![r].status = 500,
                     ![r].body = "Failed to process message"]

(***************************************************************************)
(* rateLimit (src/src/lib/auth.ts): a Map from identifier to the count of  *)
(* admitted calls and the time the window ends.  The Map is a function     *)
(* whose domain is the set of identifiers that have a record.              *)
(***************************************************************************)
ChatRateMax == 30
ChatRateWindowMs == 60000

\* The observer after a request of user u was admitted at time t: the request
\* opens a window when u has none or the last one began more than 60 seconds
\* ago, and is counted in the open window otherwise.
noteAdmission(adm, u, t) ==
    IF u \notin DOMAIN adm \/ t > adm[u].first + 60000
    THEN [k \in DOMAIN adm \cup {u} |->
            IF k = u THEN [first |-> t, count |-> 1] ELSE adm[k]]
    ELSE [adm EXCEPT ![u].count = @ + 1]

\* rateLimitMap.set(identifier, record)
mapSet(map, identifier, record) ==
    [k \in DOMAIN map \cup {identifier} |->
        IF k = identifier THEN record ELSE map[k]]

\* !record || now > record.resetTime
windowOver(map, identifier, t) ==
    identifier \notin DOMAIN map \/ t > map[identifier].resetTime

\* The value of rateLimit when the count test admits one call too many
rateLimitAdmittingAtLimit(map, identifier, t, maxRequests) ==
    windowOver(map, identifier, t) \/ map[identifier].count <= maxRequests

\* A rateLimit whose refusal starts the window anew
rateLimitStoreExtendingOnRefusal(map, identifier, t, maxRequests, windowMs) ==
    IF windowOver(map, identifier, t)
    THEN mapSet(map, identifier, [count |-> 1, resetTime |-> t + windowMs])
    ELSE IF map[identifier].count >= maxRequests
    THEN mapSet(map, identifier,
                [count |-> map[identifier].count, resetTime |-> t + windowMs])
    ELSE mapSet(map, identifier,
                [count |-> map[identifier].count + 1,
                 resetTime |-> map[identifier].resetTime])

\* The value rateLimit returns
rateLimit(map, identifier, t, maxRequests) ==
    windowOver(map, identifier, t) \/ ~(map[identifier].count >= maxRequests)

\* The Map after the call of rateLimit
rateLimitStore(map, identifier, t, maxRequests, windowMs) ==
    IF windowOver(map, identifier, t)
    THEN mapSet(map, identifier, [count |-> 1, resetTime |-> t + windowMs])
    ELSE IF map[identifier].count >= maxRequests
    THEN map
    ELSE mapSet(map, identifier,
                [count |-> map[identifier].count + 1,
                 resetTime |-> map[identifier].resetTime])

(***************************************************************************)
(* extractKeywords on its own: the query is any concatenation of at most   *)
(* MaxChunks pieces of QueryChunks (stop-words in both cases, ordinary     *)
(* words, white space, punctuation, the underscore).                       *)
(***************************************************************************)
MaxChunks == 3

QueryChunks == {
    <<"a","n","d">>, <<"T","h","e">>, <<"o","f">>,
    <<"I","n","j","u","r","y">>, <<"i","n","j","u","r","y">>,
    <<"j","o","b">>, <<" ">>, <<"\t">>, <<"?">>, <<"_">> }

Queries == {Concat(cs) : cs \in SeqsUpTo(QueryChunks, MaxChunks)}

InitKw ==
    /\ phase = "input"
    /\ query \in Queries
    /\ keywords = <<>>
    /\ documents = <<>>
    /\ results = <<>>
    /\ NoChat

\* One call of extractKeywords(query)
ExtractKeywords ==
    /\ phase = "input"
    /\ keywords' = extractKeywords(query)
    /\ phase' = "extracted"
    /\ UNCHANGED <<query, documents, results>>
    /\ UNCHANGED chatVars

NextKw == ExtractKeywords

SpecKw == InitKw /\ [][NextKw]_vars


(***************************************************************************)
(* Claims about extractKeywords (checked under SpecKw)                     *)
(***************************************************************************)
IsAlnum(c) == c \in Range(UpperCase) \cup Range(LowerCase) \cup Digits

\* Punctuation marks a query is typed with; the underscore is one of them
\* (ASCII 0x5F, Unicode category Pc).
IsPunct(c) == c \in {"?", "'", ",", ".", "!", "-", "_"}

RECURSIVE AlnumRunsFrom(_, _, _, _)
AlnumRunsFrom(s, i, acc, cur) ==
    IF i > Len(s) THEN (IF cur = <<>> THEN acc ELSE acc \cup {cur})
    ELSE IF IsAlnum(s[i])
         THEN AlnumRunsFrom(s, i + 1, acc, Append(cur, s[i]))
         ELSE AlnumRunsFrom(s, i + 1,
                            IF cur = <<>> THEN acc ELSE acc \cup {cur}, <<>>)

\* The words of a string: its maximal runs of letters and digits.
AlnumRuns(s) == AlnumRunsFrom(s, 1, {}, <<>>)

\* A query made only of stop-words (in any case), punctuation and white space.
OnlyStopWordsPunctSpace(q) ==
    /\ \A i \in 1..Len(q) : IsAlnum(q[i]) \/ IsPunct(q[i]) \/ IsSpace(q[i])
    /\ \A w \in AlnumRuns(q) : toLowerCase(w) \in stopWords

TokensWellFormed ==
    \A i \in 1..Len(keywords) :
        /\ toLowerCase(keywords[i]) = keywords[i]
        /\ Len(keywords[i]) > 2
        /\ keywords[i] \notin stopWords

\* C7: every token returned by extractKeywords is lowercase, longer than 2
\* characters and no stop-word, and a query made only of stop-words,
\* punctuation or white space (the empty query included) yields no token.
C7_TokensFilteredAndStopOnlyEmpty ==
    phase = "extracted" =>
        /\ TokensWellFormed
        /\ OnlyStopWordsPunctSpace(query) => keywords = <<>>

\* C8: the output of extractKeywords holds no token twice.
C8_NoDuplicateKeywords ==
    phase = "extracted" =>
        \A i, j \in 1..Len(keywords) : i # j => keywords[i] # keywords[j]


(***************************************************************************)
(* searchKnowledgeBase on its own: the table holds at most MaxDocs rows,   *)
(* each of one of the DocKinds; rows are created two at a time, so that    *)
(* createdAt has ties as well as strict order.                             *)
(***************************************************************************)
MaxDocs == 6

\* More filler than either cut-off, and an amount between the two.
LongPad == KeywordExcerptLen + 100
MediumPad == FallbackExcerptLen + 200

\* Both keywords of "Injury shift?" in the title, one also in the body
TitleMatchKind ==
    [title |-> <<"I","n","j","u","r","y"," ","S","h","i","f","t">>,
     content |-> [head |-> <<"s","h","i","f","t"," ","m","e","m","o">>, pad |-> 0],
     documentType |-> "POLICY", isActive |-> TRUE]

\* One keyword, in the body only; longer than 1500 characters
BodyMatchKind ==
    [title |-> <<"G","u","i","d","e">>,
     content |-> [head |-> <<"I","n","j","u","r","y"," ","l","e","a","v","e">>,
                  pad |-> LongPad],
     documentType |-> "QA", isActive |-> TRUE]

\* No keyword; between 1000 and 1500 characters
NoMatchKind ==
    [title |-> <<"P","o","l","i","c","y">>,
     content |-> [head |-> <<"m","e","m","o">>, pad |-> MediumPad],
     documentType |-> "POLICY", isActive |-> TRUE]

\* Deactivated, with both keywords
InactiveKind ==
    [title |-> <<"S","h","i","f","t">>,
     content |-> [head |-> <<"i","n","j","u","r","y">>, pad |-> 0],
     documentType |-> "QA", isActive |-> FALSE]

DocKinds == {TitleMatchKind, BodyMatchKind, NoMatchKind, InactiveKind}

\* The row with the given id built from a kind
documentRow(kind, id) ==
    [id |-> id, title |-> kind.title, content |-> kind.content,
     documentType |-> kind.documentType, isActive |-> kind.isActive,
     createdAt |-> (id + 1) \div 2]

Corpora ==
    {[i \in 1..Len(ks) |-> documentRow(ks[i], i)] : ks \in SeqsUpTo(DocKinds, MaxDocs)}

SearchQueries == {
    <<"I","n","j","u","r","y"," ","s","h","i","f","t","?">>,
    <<"s","h","i","f","t"," ","S","H","I","F","T"," ","j","o","b">>,
    <<"T","h","e"," ","o","f","?">> }

InitSearch ==
    /\ phase = "input"
    /\ query = <<>>
    /\ keywords = <<>>
    /\ documents \in Corpora
    /\ results = <<>>
    /\ NoChat

\* One call of searchKnowledgeBase(q)
SearchKnowledgeBase ==
    /\ phase = "input"
    /\ \E q \in SearchQueries :
        /\ query' = q
        /\ keywords' = extractKeywords(q)
        /\ results' \in searchKnowledgeBase(q, documents)
    /\ phase' = "searched"
    /\ UNCHANGED documents
    /\ UNCHANGED chatVars

NextSearch == SearchKnowledgeBase

SpecSearch == InitSearch /\ [][NextSearch]_vars


(***************************************************************************)
(* Specification SpecScenario: searchKnowledgeBase for the query of the    *)
(* accommodation scenario, on every table of at most MaxDocs rows that     *)
(* holds the accommodation document among documents about injuries and     *)
(* documents that match nothing.                                           *)
(***************************************************************************)
\* "Can I modify an employee's schedule due to injury?"
ScenarioQuery ==
    <<"C","a","n"," ","I"," ","m","o","d","i","f","y"," ","a","n"," ",
      "e","m","p","l","o","y","e","e","'","s"," ","s","c","h","e","d",
      "u","l","e"," ","d","u","e"," ","t","o"," ","i","n","j","u","r",
      "y","?">>

\* Active, titled "Reasonable Accommodation Guidelines", with
\* "schedule" and "injury" in the body
AccommodationKind ==
    [title |-> <<"R","e","a","s","o","n","a","b","l","e"," ","A","c",
                 "c","o","m","m","o","d","a","t","i","o","n"," ","G",
                 "u","i","d","e","l","i","n","e","s">>,
     content |-> [head |-> <<"A"," ","s","c","h","e","d","u","l","e"," ","c","h",
                    "a","n","g","e"," ","a","f","t","e","r"," ","a","n",
                    " ","i","n","j","u","r","y">>,
                  pad |-> 0],
     documentType |-> "POLICY", isActive |-> TRUE]

ScenarioKinds == {AccommodationKind, BodyMatchKind, NoMatchKind}

ScenarioCorpora ==
    {c \in {[i \in 1..Len(ks) |-> documentRow(ks[i], i)] :
                ks \in SeqsUpTo(ScenarioKinds, MaxDocs)} :
        \E i \in 1..Len(c) : c[i].title = AccommodationKind.title}

InitScenario ==
    /\ phase = "scenario"
    /\ query = <<>>
    /\ keywords = <<>>
    /\ documents \in ScenarioCorpora
    /\ results = <<>>
    /\ NoChat

\* The call searchKnowledgeBase(ScenarioQuery)
SearchScenario ==
    /\ phase = "scenario"
    /\ query' = ScenarioQuery
    /\ keywords' = extractKeywords(ScenarioQuery)
    /\ results' \in searchKnowledgeBase(ScenarioQuery, documents)
    /\ phase' = "searched"
    /\ UNCHANGED documents
    /\ UNCHANGED chatVars

NextScenario == SearchScenario

SpecScenario == InitScenario /\ [][NextScenario]_vars


(***************************************************************************)
(* Claims about searchKnowledgeBase (checked under SpecSearch)             *)
(***************************************************************************)
Max(a, b) == IF a >= b THEN a ELSE b

\* a is a prefix of b (behind both heads the two strings hold filler only)
IsPrefixText(a, b) ==
    /\ TextLen(a) <= TextLen(b)
    /\ \A i \in 1..Min(TextLen(a), Max(Len(a.head), Len(b.head))) :
          CharAt(a, i) = CharAt(b, i)

\* The row a result was built from
RowOf(r) == documents[r.docId]

ReturnedIds == {results[i].docId : i \in 1..Len(results)}

KeywordPath == phase = "searched" /\ keywords # <<>>
FallbackPath == phase = "searched" /\ keywords = <<>>

\* C1: searchKnowledgeBase returns at most 5 results, on the keyword path
\* and on the empty-keyword fallback path.
C1_AtMostFiveResults ==
    phase = "searched" => Len(results) <= 5

C1_Witness ==
    /\ KeywordPath
    /\ Cardinality(matchingDocuments(documents, keywords)) > 5
    /\ Len(results) = 5

\* C2: on the keyword path the results are ordered by score descending, and
\* two results of equal score are in createdAt-descending order.
C2_SortedByScoreThenRecency ==
    KeywordPath =>
        \A i, j \in 1..Len(results) : i < j =>
            /\ ~ScoreLess(results[i].score, results[j].score)
            /\ ScoreEq(results[i].score, results[j].score)
                  => RowOf(results[i]).createdAt >= RowOf(results[j]).createdAt

\* The sort moved an older row in front of a newer one, and two rows of
\* equal score and different age were returned.
C2_Witness ==
    /\ KeywordPath
    /\ \E i, j \in 1..Len(results) :
          /\ i < j
          /\ RowOf(results[i]).createdAt < RowOf(results[j]).createdAt
    /\ \E i, j \in 1..Len(results) :
          /\ i < j
          /\ ScoreEq(results[i].score, results[j].score)
          /\ RowOf(results[i]).createdAt > RowOf(results[j]).createdAt

\* C3: on the keyword path the results are the best of all the active
\* matching documents: no such document that is left out scores strictly
\* higher than a returned one.
C3_BestOfAllMatches ==
    KeywordPath =>
        \A d \in matchingDocuments(documents, keywords) :
            d.id \notin ReturnedIds =>
                \A i \in 1..Len(results) :
                    ~ScoreLess(results[i].score, relevanceScore(d, keywords))

\* C4: with no keywords, the result is exactly the min(3, number of active
\* documents) most recently created active documents, each with score 0.5.
C4_FallbackThreeMostRecent ==
    FallbackPath =>
        /\ Len(results) = Min(3, Cardinality(activeDocuments(documents)))
        /\ Cardinality(ReturnedIds) = Len(results)
        /\ \A i \in 1..Len(results) :
              /\ RowOf(results[i]).isActive
              /\ results[i].title = RowOf(results[i]).title
              /\ results[i].score.num = 1 /\ results[i].score.den = 2
        /\ \A d \in activeDocuments(documents) :
              d.id \notin ReturnedIds =>
                  \A i \in 1..Len(results) : d.createdAt <= RowOf(results[i]).createdAt

\* More than three active rows, and a deactivated row newer than a returned one.
C4_Witness ==
    /\ FallbackPath
    /\ Cardinality(activeDocuments(documents)) > 3
    /\ Len(results) = 3
    /\ \E d \in Range(documents), i \in 1..Len(results) :
          ~d.isActive /\ d.createdAt > RowOf(results[i]).createdAt

\* C5: every result, on either path, carries an excerpt of at most 1500
\* characters that is a prefix of the stored body.
C5_ExcerptBoundedPrefix ==
    phase = "searched" =>
        \A i \in 1..Len(results) :
            /\ TextLen(results[i].content) <= 1500
            /\ IsPrefixText(results[i].content, RowOf(results[i]).content)

\* A body longer than 1500 characters was cut on the keyword path.
C5_Witness ==
    /\ KeywordPath
    /\ \E i \in 1..Len(results) :
          /\ TextLen(RowOf(results[i]).content) > 1500
          /\ TextLen(results[i].content) = 1500

\* The lowercased title of the row holds every keyword
TitleHoldsEveryKeyword(d) ==
    \A k \in 1..Len(keywords) : includes(toLowerCase(d.title), keywords[k])

\* C6: the score of every result of the keyword path lies in [0, 1], and a
\* document whose lowercased title contains every keyword scores exactly 1.
C6_ScoreInUnitInterval ==
    KeywordPath =>
        \A i \in 1..Len(results) :
            /\ results[i].score.den > 0
            /\ 0 <= results[i].score.num
            /\ results[i].score.num <= results[i].score.den
            /\ TitleHoldsEveryKeyword(RowOf(results[i]))
                  => results[i].score.num = results[i].score.den

\* A row with every keyword in the title and one in the body as well (more
\* points than twice the keyword count), and a row with a score below 1.
C6_Witness ==
    /\ KeywordPath
    /\ \E i \in 1..Len(results) :
          /\ TitleHoldsEveryKeyword(RowOf(results[i]))
          /\ matchCount(RowOf(results[i]), keywords) > 2 * Len(keywords)
    /\ \E i \in 1..Len(results) : results[i].score.num < results[i].score.den


(***************************************************************************)
(* The chat endpoint: MaxRequests requests, run concurrently, on a store   *)
(* that holds one conversation of alice with up to MaxStoredPairs saved    *)
(* exchanges.                                                              *)
(***************************************************************************)
MaxRequests == 1
MaxStoredPairs == 6
MaxMessageLen == 2000

Users == {"alice", "bob"}

SeedConversationId == <<"seed">>
UnknownConversationId == <<"unknown">>

ChatMessages == {
    <<"I","n","j","u","r","y"," ","s","h","i","f","t","?">>,
    <<"T","h","e"," ","o","f","?">>,
    <<>> }

RequestInputs ==
    [userId : Users,
     conversationId : {NoConversationId, SeedConversationId, UnknownConversationId},
     message : ChatMessages]

\* The rows the exchanges 1..n of the seed conversation left in the table
storedTurns(n) ==
    [i \in 1..(2 * n) |->
        [id |-> i, conversationId |-> SeedConversationId,
         role |-> IF i % 2 = 1 THEN "USER" ELSE "ASSISTANT",
         content |-> IF i % 2 = 1 THEN <<"h","i">> ELSE <<"o","k">>,
         sources |-> <<>>,
         createdAt |-> (i + 1) \div 2]]

\* The document table of the chat endpoint: empty, or one row of each kind
ChatCorpora ==
    {<<>>,
     <<documentRow(InactiveKind, 1), documentRow(TitleMatchKind, 2),
       documentRow(NoMatchKind, 3), documentRow(BodyMatchKind, 4)>>}

\* The Map of a process that served no request, and the Map after alice was
\* admitted 29 times and bob 30 times in the window that began at time 0
RateLimitMapsTime == ChatRateWindowMs \div 2
RateLimitMaps ==
    {<<>>,
     [u \in Users |-> [count |-> IF u = "alice" THEN ChatRateMax - 1 ELSE ChatRateMax,
                       resetTime |-> ChatRateWindowMs]]}

Init ==
    /\ phase = "chat"
    /\ query = <<>>
    /\ keywords = <<>>
    /\ results = <<>>
    /\ documents \in ChatCorpora
    /\ apiKey \in BOOLEAN
    /\ conversations = {[id |-> SeedConversationId, userId |-> "alice"]}
    /\ \E n \in 0..MaxStoredPairs :
          /\ messages = storedTurns(n)
          /\ dbNow = n + 1
    /\ requests = [r \in 1..MaxRequests |-> IdleRequest]
    /\ providerCalls = <<>>
    /\ rateLimitMap \in RateLimitMaps
    /\ now = RateLimitMapsTime
    /\ store = <<>>
    /\ sweepDue = SweepIntervalMs
    /\ admissions = [u \in DOMAIN rateLimitMap |->
                        [first |-> rateLimitMap[u].resetTime - ChatRateWindowMs,
                         count |-> rateLimitMap[u].count]]

\* The requests that arrive and the ways the provider call ends, in the
\* specification at hand: SpecConcurrent follows more requests at a time
\* than Spec and gives them fewer inputs.
ConcurrentInputs ==
    [userId : {"alice"},
     conversationId : {SeedConversationId},
     message : ChatMessages \ {<<>>}]

ConcurrentOutcomes ==
    {o \in ProviderOutcomes :
        \/ o.kind = "response" /\ o.content # <<>> /\ o.content[1].type = "text"
        \/ o.kind = "error" /\ ~o.hasStatus}

\* SpecDeactivate follows requests of alice that open a conversation
DeactivateInputs ==
    [userId : {"alice"},
     conversationId : {NoConversationId},
     message : ChatMessages \ {<<>>}]

requestInputs ==
    CASE phase = "concurrent" -> ConcurrentInputs
      [] phase = "deactivate" -> DeactivateInputs
      [] OTHER -> RequestInputs

\* In SpecDeactivate the provider answers every call with a text block
DeactivateOutcomes ==
    {o \in ProviderOutcomes :
        o.kind = "response" /\ o.content # <<>> /\ o.content[1].type = "text"}

providerOutcomes ==
    CASE phase = "concurrent" -> ConcurrentOutcomes
      [] phase = "deactivate" -> DeactivateOutcomes
      [] OTHER -> ProviderOutcomes

\* messageSchema.parse(body)
validBody(in) == Len(in.message) >= 1 /\ Len(in.message) <= MaxMessageLen

\* A rejection that comes after createConversation instead of before it
PostRejectedAfterCreate(r, in) ==
    /\ requests' = [requests EXCEPT ![r].pc = "done", ![r].userId = in.userId,
                                    ![r].at = now,
                                    ![r].conversationId = <<"new", r>>,
                                    ![r].status = 429,
                                    ![r].body = "Too many requests"]
    /\ conversations' = conversations \cup
            {[id |-> <<"new", r>>, userId |-> in.userId]}

\* POST when the rate guard refuses the request: the 429 response
PostRejected(r, in) ==
    /\ requests' = postRejects(r, in.userId)
    /\ UNCHANGED conversations

\* POST after the rate guard let the request pass, up to the call of
\* generateChatbotResponse: the body is parsed and, when it names no
\* conversation, createConversation makes one.
PostAdmitted(r, in) ==
    IF ~validBody(in)
    THEN /\ requests' = [requests EXCEPT ![r].pc = "done",
                            ![r].userId = in.userId, ![r].at = now,
                            ![r].error = "ZodError", ![r].status = 400,
                            ![r].body = "ZodError"]
         /\ UNCHANGED conversations
    ELSE IF in.conversationId = NoConversationId
    THEN /\ conversations' = conversations \cup
                {[id |-> <<"new", r>>, userId |-> in.userId]}
         /\ requests' = [requests EXCEPT ![r].pc = "generate",
                            ![r].userId = in.userId, ![r].at = now,
                            ![r].conversationId = <<"new", r>>,
                            ![r].message = in.message]
    ELSE /\ requests' = [requests EXCEPT ![r].pc = "generate",
                            ![r].userId = in.userId, ![r].at = now,
                            ![r].conversationId = in.conversationId,
                            ![r].message = in.message]
         /\ UNCHANGED conversations

\* POST up to the call of generateChatbotResponse: the rate guard of the
\* session's user, then the body parse and createConversation.
PostBegin(r) ==
    /\ requests[r].pc = "idle"
    /\ \A q \in 1..(r - 1) : requests[q].pc # "idle"
    /\ \E in \in requestInputs :
        /\ rateLimitMap' = rateLimitStore(rateLimitMap, in.userId, now,
                                          ChatRateMax, ChatRateWindowMs)
        /\ IF rateLimit(rateLimitMap, in.userId, now, ChatRateMax)
           THEN /\ PostAdmitted(r, in)
                /\ admissions' = noteAdmission(admissions, in.userId, now)
           ELSE /\ PostRejected(r, in)
                /\ UNCHANGED admissions
    /\ UNCHANGED <<searchVars, documents, apiKey, messages, dbNow, providerCalls,
                   now, storeVars>>

\* generateChatbotResponse without the owner test
GenLoadConversationAnyOwner(r) ==
    /\ requests[r].pc = "generate"
    /\ IF ~apiKey
       THEN requests' = postFails(r, "Chatbot is not configured")
       ELSE IF \A c \in conversations : c.id # requests[r].conversationId
            THEN requests' = postFails(r, "Conversation not found")
            ELSE \E h \in findMessagesAsc(messagesOf(requests[r].conversationId),
                                          HistoryTake) :
                    requests' = [requests EXCEPT ![r].pc = "search",
                                                 ![r].history = h]
    /\ UNCHANGED <<searchVars, documents, apiKey, conversations, messages, dbNow,
                   providerCalls, rateVars, storeVars>>

\* generateChatbotResponse with the API key test after the conversation read
GenLoadConversationKeyCheckedLast(r) ==
    /\ requests[r].pc = "generate"
    /\ LET found == {c \in conversations : c.id = requests[r].conversationId}
       IN  IF found = {} \/ \E c \in found : c.userId # requests[r].userId
           THEN requests' = postFails(r, "Conversation not found")
           ELSE IF ~apiKey
           THEN requests' = postFails(r, "Chatbot is not configured")
           ELSE \E h \in findMessagesAsc(messagesOf(requests[r].conversationId),
                                         HistoryTake) :
                   requests' = [requests EXCEPT ![r].pc = "search",
                                                ![r].history = h]
    /\ UNCHANGED <<searchVars, documents, apiKey, conversations, messages, dbNow,
                   providerCalls, rateVars, storeVars>>

\* generateChatbotResponse up to the conversation check: the API key test,
\* findUnique with the first HistoryTake rows, the owner test.
GenLoadConversation(r) ==
    /\ requests[r].pc = "generate"
    /\ IF ~apiKey
       THEN requests' = postFails(r, "Chatbot is not configured")
       ELSE LET found == {c \in conversations : c.id = requests[r].conversationId}
            IN  IF found = {} \/ \E c \in found : c.userId # requests[r].userId
                THEN requests' = postFails(r, "Conversation not found")
                ELSE \E h \in findMessagesAsc(messagesOf(requests[r].conversationId),
                                              HistoryTake) :
                        requests' = [requests EXCEPT ![r].pc = "search",
                                                     ![r].history = h]
    /\ UNCHANGED <<searchVars, documents, apiKey, conversations, messages, dbNow,
                   providerCalls, rateVars, storeVars>>

\* A search step that throws when retrieval finds no document
GenSearchFailingOnEmpty(r) ==
    /\ requests[r].pc = "search"
    /\ \E found \in searchKnowledgeBase(requests[r].message, documents) :
          requests' = IF found = <<>>
                      THEN postFails(r, "No documents found")
                      ELSE [requests EXCEPT ![r].pc = "provider",
                                            ![r].searchResults = found]
    /\ UNCHANGED <<searchVars, documents, apiKey, conversations, messages, dbNow,
                   providerCalls, rateVars, storeVars>>

\* const searchResults = await searchKnowledgeBase(userMessage)
GenSearch(r) ==
    /\ requests[r].pc = "search"
    /\ \E found \in searchKnowledgeBase(requests[r].message, documents) :
          requests' = [requests EXCEPT ![r].pc = "provider",
                                       ![r].searchResults = found]
    /\ UNCHANGED <<searchVars, documents, apiKey, conversations, messages, dbNow,
                   providerCalls, rateVars, storeVars>>

\* The list given to anthropic.messages.create as messages
providerMessages(r) ==
    messageHistory(requests[r].history)
        \o <<[role |-> "user", content |-> requests[r].message]>>

\* A request that goes on to saveMessages whatever the provider call gave
afterProviderCallSavingOnError(r, o) ==
    IF o.kind = "response" /\ o.content # <<>>
    THEN [requests EXCEPT ![r].pc = "save",
                          ![r].response = IF o.content[1].type = "text"
                                          THEN o.content[1].text ELSE <<>>]
    ELSE [requests EXCEPT ![r].pc = "save",
                          ![r].error = classifyProviderError(o.hasStatus, o.status)]

\* The request after the provider call ended with outcome o: the reply is the
\* text of the first content block, or '' when that block is no text block;
\* a thrown error (reading content[0] of an empty list throws a TypeError,
\* which has no status) goes through the catch block.
afterProviderCall(r, o) ==
    IF o.kind = "response" /\ o.content # <<>>
    THEN [requests EXCEPT ![r].pc = "save",
                          ![r].response = IF o.content[1].type = "text"
                                          THEN o.content[1].text ELSE <<>>]
    ELSE postFails(r, classifyProviderError(o.hasStatus, o.status))

\* The try block of generateChatbotResponse: the provider call and what
\* follows from its outcome.
GenCallProvider(r) ==
    /\ requests[r].pc = "provider"
    /\ \E o \in providerOutcomes :
        /\ providerCalls' = Append(providerCalls,
                [request |-> r,
                 system |-> buildContext(requests[r].searchResults),
                 messages |-> providerMessages(r),
                 outcome |-> o])
        /\ requests' = afterProviderCall(r, o)
    /\ UNCHANGED <<searchVars, documents, apiKey, conversations, messages, dbNow,
                   rateVars, storeVars>>

\* A saveMessages that inserts the user row with a statement of its own and
\* has yet to insert the assistant row
SaveMessagesUserRowAlone(r) ==
    /\ requests[r].pc = "save"
    /\ messages' = Append(messages,
            [id |-> Len(messages) + 1, conversationId |-> requests[r].conversationId,
             role |-> "USER", content |-> requests[r].message,
             sources |-> <<>>, createdAt |-> dbNow])
    /\ dbNow' = dbNow + 1
    /\ requests' = [requests EXCEPT ![r].pc = "saveAssistant"]
    /\ UNCHANGED <<searchVars, documents, apiKey, conversations, providerCalls,
                   rateVars, storeVars>>

\* saveMessages: one createMany of the user row and the assistant row, then
\* the 200 response.
SaveMessages(r) ==
    /\ requests[r].pc = "save"
    /\ messages' = messages \o
          <<[id |-> Len(messages) + 1, conversationId |-> requests[r].conversationId,
             role |-> "USER", content |-> requests[r].message,
             sources |-> <<>>, createdAt |-> dbNow],
            [id |-> Len(messages) + 2, conversationId |-> requests[r].conversationId,
             role |-> "ASSISTANT", content |-> requests[r].response,
             sources |-> requests[r].searchResults, createdAt |-> dbNow]>>
    /\ dbNow' = dbNow + 1
    /\ requests' = [requests EXCEPT ![r].pc = "done", ![r].status = 200,
                                    ![r].body = "message"]
    /\ UNCHANGED <<searchVars, documents, apiKey, conversations, providerCalls,
                   rateVars, storeVars>>

\* A failed createMany that sends the request back to the provider call
SaveMessagesFailsRetrying(r) ==
    /\ requests[r].pc = "save"
    /\ requests' = [requests EXCEPT ![r].pc = "provider",
                                    ![r].error = "createMany failed"]
    /\ UNCHANGED <<searchVars, documents, apiKey, conversations, messages, dbNow,
                   providerCalls, rateVars, storeVars>>

\* saveMessages when the createMany is rejected by the database
SaveMessagesFails(r) ==
    /\ requests[r].pc = "save"
    /\ requests' = postFails(r, "createMany failed")
    /\ UNCHANGED <<searchVars, documents, apiKey, conversations, messages, dbNow,
                   providerCalls, rateVars, storeVars>>

Next ==
    \E r \in 1..MaxRequests :
        \/ PostBegin(r)
        \/ GenLoadConversation(r)
        \/ GenSearch(r)
        \/ GenCallProvider(r)
        \/ SaveMessages(r)
        \/ SaveMessagesFails(r)

Spec == Init /\ [][Next]_vars

(***************************************************************************)
(* Specification SpecConcurrent: MaxRequests + 1 requests of alice on her  *)
(* seed conversation, in flight together.  The steps of the requests       *)
(* interleave at every await of POST and generateChatbotResponse.          *)
(***************************************************************************)
ConcurrentRequests == MaxRequests + 1

InitConcurrent ==
    /\ phase = "concurrent"
    /\ query = <<>>
    /\ keywords = <<>>
    /\ results = <<>>
    /\ documents = <<>>
    /\ apiKey = TRUE
    /\ conversations = {[id |-> SeedConversationId, userId |-> "alice"]}
    /\ messages = storedTurns(1)
    /\ dbNow = 2
    /\ requests = [r \in 1..ConcurrentRequests |-> IdleRequest]
    /\ providerCalls = <<>>
    /\ rateLimitMap = <<>>
    /\ now = 0
    /\ admissions = <<>>
    /\ store = <<>>
    /\ sweepDue = SweepIntervalMs

NextConcurrent ==
    \E r \in 1..ConcurrentRequests :
        \/ PostBegin(r)
        \/ GenLoadConversation(r)
        \/ GenSearch(r)
        \/ GenCallProvider(r)
        \/ SaveMessages(r)
        \/ SaveMessagesFails(r)

SpecConcurrent == InitConcurrent /\ [][NextConcurrent]_vars


(***************************************************************************)
(* Specification SpecDeactivate: MaxRequests + 1 requests of alice, each   *)
(* opening a conversation, while an administrator deactivates training     *)
(* documents.  The table starts with one inactive row and two active rows; *)
(* the handlers never write to it, the administrator sets isActive to      *)
(* false on a row at any moment between two steps of the requests.         *)
(***************************************************************************)
DeactivateCorpus ==
    <<documentRow(InactiveKind, 1), documentRow(TitleMatchKind, 2),
      documentRow(BodyMatchKind, 3)>>

InitDeactivate ==
    /\ phase = "deactivate"
    /\ query = <<>>
    /\ keywords = <<>>
    /\ results = <<>>
    /\ documents = DeactivateCorpus
    /\ apiKey = TRUE
    /\ conversations = {[id |-> SeedConversationId, userId |-> "alice"]}
    /\ messages = storedTurns(1)
    /\ dbNow = 2
    /\ requests = [r \in 1..ConcurrentRequests |-> IdleRequest]
    /\ providerCalls = <<>>
    /\ rateLimitMap = <<>>
    /\ now = 0
    /\ admissions = <<>>
    /\ store = <<>>
    /\ sweepDue = SweepIntervalMs

\* "Admins can deactivate training documents at any time. Set isActive:
\* false and the chatbot will stop using it."
DeactivateDocument(i) ==
    /\ documents[i].isActive
    /\ documents' = [documents EXCEPT ![i].isActive = FALSE]
    /\ UNCHANGED <<searchVars, apiKey, conversations, messages, dbNow, requests,
                   providerCalls, rateVars, storeVars>>

NextDeactivate ==
    \/ \E r \in 1..ConcurrentRequests :
          \/ PostBegin(r)
          \/ GenLoadConversation(r)
          \/ GenSearch(r)
          \/ GenCallProvider(r)
          \/ SaveMessages(r)
          \/ SaveMessagesFails(r)
    \/ \E i \in 1..Len(documents) : DeactivateDocument(i)

SpecDeactivate == InitDeactivate /\ [][NextDeactivate]_vars


(***************************************************************************)
(* Specification SpecRate: the rate guard of POST /api/chatbot/message     *)
(* over time.  The process starts with an empty Map; users send requests,  *)
(* and the clock moves on in steps of half a window.  requests holds the   *)
(* last request only, as the guard left it: refused with 429, or admitted  *)
(* to the rest of the handler, which does not touch rateLimitMap and is    *)
(* followed by Spec.                                                       *)
(***************************************************************************)
MaxTicks == 3
TickMs == ChatRateWindowMs \div 2

InitRate ==
    /\ phase = "rate"
    /\ query = <<>>
    /\ keywords = <<>>
    /\ results = <<>>
    /\ documents = <<>>
    /\ NoChat

\* POST of user u up to the rate guard
RateLimitedPost(u) ==
    /\ phase = "rate"
    /\ rateLimitMap' = rateLimitStore(rateLimitMap, u, now,
                                      ChatRateMax, ChatRateWindowMs)
    /\ IF rateLimit(rateLimitMap, u, now, ChatRateMax)
       THEN /\ requests' = <<[IdleRequest EXCEPT !.pc = "admitted", !.userId = u,
                                                 !.at = now]>>
            /\ admissions' = noteAdmission(admissions, u, now)
       ELSE /\ requests' = <<[IdleRequest EXCEPT !.pc = "done", !.userId = u,
                                                 !.at = now, !.status = 429,
                                                 !.body = "Too many requests"]>>
            /\ UNCHANGED admissions
    /\ UNCHANGED <<searchVars, documents, apiKey, conversations, messages, dbNow,
                   providerCalls, now, storeVars>>

\* Time passes
Tick ==
    /\ phase = "rate"
    /\ now < MaxTicks * TickMs
    /\ now' = now + TickMs
    /\ UNCHANGED <<searchVars, documents, apiKey, conversations, messages, dbNow,
                   requests, providerCalls, rateLimitMap, admissions, storeVars>>

NextRate ==
    \/ \E u \in Users : RateLimitedPost(u)
    \/ Tick

SpecRate == InitRate /\ [][NextRate]_vars

\* SpecRate with a clock that keeps moving (up to the horizon MaxTicks): no
\* user is obliged to send a request.
SpecRateFair == SpecRate /\ WF_vars(Tick)

(***************************************************************************)
(* Specification SpecStore: checkRateLimit, the tiers of rateLimiters and  *)
(* the sweep of the store (rate-limit.ts), as createApiHandler uses them:  *)
(* one client, identified by its IP address, sends requests to routes of   *)
(* the five tiers while the clock moves in steps of one sweep interval.    *)
(* requests holds the last request only: its tier, its identifier, when    *)
(* it came and the error checkRateLimit threw, if any.                     *)
(***************************************************************************)
rateLimiters ==
    [auth    |-> [maxRequests |-> 5,   windowMs |-> 15 * 60 * 1000],
     api     |-> [maxRequests |-> 100, windowMs |-> 15 * 60 * 1000],
     chatbot |-> [maxRequests |-> 20,  windowMs |-> 60 * 1000],
     upload  |-> [maxRequests |-> 10,  windowMs |-> 60 * 60 * 1000],
     strict  |-> [maxRequests |-> 10,  windowMs |-> 60 * 1000]]

Tiers == DOMAIN rateLimiters

\* getClientIdentifier(req) of the one client
ClientIps == {"203.0.113.7"}

\* The key under which rateLimiters[tier](identifier) keeps its record:
\* every tier passes the bare identifier on to checkRateLimit
storeKey(tier, identifier) == identifier

\* checkRateLimit throws RateLimitError
checkRateLimitThrows(map, identifier, t, config) ==
    /\ identifier \in DOMAIN map
    /\ ~(t > map[identifier].resetTime)
    /\ map[identifier].count >= config.maxRequests

\* The store after checkRateLimit(identifier, config)
checkRateLimitStore(map, identifier, t, config) ==
    IF identifier \notin DOMAIN map \/ t > map[identifier].resetTime
    THEN [k \in DOMAIN map \cup {identifier} |->
            IF k = identifier
            THEN [count |-> 1, resetTime |-> t + config.windowMs]
            ELSE map[k]]
    ELSE IF map[identifier].count >= config.maxRequests
    THEN map
    ELSE [map EXCEPT ![identifier].count = @ + 1]

InitStore ==
    /\ phase = "store"
    /\ query = <<>>
    /\ keywords = <<>>
    /\ results = <<>>
    /\ documents = <<>>
    /\ NoChat

\* Step 1 of the handler that createApiHandler builds for a route of the
\* given tier: rateLimiters[tier](clientIp)
CheckRateLimit(tier, ip) ==
    /\ phase = "store"
    /\ LET key == storeKey(tier, ip)
           config == rateLimiters[tier]
       IN  /\ store' = checkRateLimitStore(store, key, now, config)
           /\ IF checkRateLimitThrows(store, key, now, config)
              THEN requests' = <<[tier |-> tier, identifier |-> ip, at |-> now,
                                  error |-> "RateLimitError", status |-> 429]>>
              ELSE requests' = <<[tier |-> tier, identifier |-> ip, at |-> now,
                                  error |-> "", status |-> 0]>>
    /\ UNCHANGED <<searchVars, documents, apiKey, conversations, messages, dbNow,
                   providerCalls, rateLimitMap, now, admissions, sweepDue>>

\* The setInterval callback: every record whose resetTime has passed is
\* deleted
Sweep ==
    /\ phase = "store"
    /\ now >= sweepDue
    /\ store' = [k \in {i \in DOMAIN store : ~(now > store[i].resetTime)} |->
                    store[k]]
    /\ sweepDue' = sweepDue + SweepIntervalMs
    /\ UNCHANGED <<searchVars, documents, apiKey, conversations, messages, dbNow,
                   requests, providerCalls, rateLimitMap, now, admissions>>

\* Time passes, by one sweep interval; a sweep that is due runs first
StoreTick ==
    /\ phase = "store"
    /\ now < sweepDue
    /\ now < MaxTicks * SweepIntervalMs
    /\ now' = now + SweepIntervalMs
    /\ UNCHANGED <<searchVars, documents, apiKey, conversations, messages, dbNow,
                   requests, providerCalls, rateLimitMap, admissions, storeVars>>

NextStore ==
    \/ \E tier \in Tiers, ip \in ClientIps : CheckRateLimit(tier, ip)
    \/ Sweep
    \/ StoreTick

SpecStore == InitStore /\ [][NextStore]_vars

(***************************************************************************)
(* Claims about the message list of generateChatbotResponse (under Spec)   *)
(***************************************************************************)
\* The row m is the stored form of the provider message pm
StoredAs(m, pm) ==
    /\ pm.content = m.content
    /\ pm.role = (IF m.role = "USER" THEN "user" ELSE "assistant")

\* C9: the message list sent to the provider holds at most 10 stored turns
\* of the conversation, followed by the new user message as last element.
C9_AtMostTenTurnsThenNewMessage ==
    \A c \in 1..Len(providerCalls) :
        LET sent == providerCalls[c].messages
            req == requests[providerCalls[c].request]
        IN  /\ Len(sent) >= 1
            /\ Len(sent) - 1 <= 10
            /\ sent[Len(sent)] = [role |-> "user", content |-> req.message]
            /\ \A k \in 1..(Len(sent) - 1) :
                  \E m \in messagesOf(req.conversationId) : StoredAs(m, sent[k])

\* A conversation with more than 10 stored turns, of which 10 were sent.
C9_Witness ==
    \E c \in 1..Len(providerCalls) :
        /\ Len(providerCalls[c].messages) = 11
        /\ Cardinality(messagesOf(requests[providerCalls[c].request].conversationId)) > 10

\* h is the last 10 rows of the set rows by createdAt, oldest first
MostRecentTen(h, rows) ==
    /\ Len(h) = Min(10, Cardinality(rows))
    /\ Range(h) \subseteq rows
    /\ \A i, j \in 1..Len(h) : i < j => h[i].createdAt <= h[j].createdAt
    /\ \A m \in rows \ Range(h) : \A i \in 1..Len(h) : m.createdAt <= h[i].createdAt

\* C10: the stored turns folded into the provider request are the most
\* recent 10 turns of the conversation, oldest to newest.
C10_MostRecentTenTurns ==
    [][\A r \in 1..MaxRequests :
          (requests[r].pc = "generate" /\ requests'[r].pc = "search")
              => MostRecentTen(requests'[r].history,
                               messagesOf(requests[r].conversationId))]_vars

(***************************************************************************)
(* Claims about failures of the chat endpoint (under Spec)                 *)
(***************************************************************************)
\* The outcomes of the provider call that request r made
outcomesOf(r) ==
    {providerCalls[c].outcome : c \in {k \in 1..Len(providerCalls) :
                                          providerCalls[k].request = r}}

\* The errors generateChatbotResponse throws
GenerationErrors ==
    {"Chatbot is not configured", "Conversation not found", "Invalid API key",
     "API rate limit reached", "Claude API is temporarily unavailable",
     "Failed to generate response"}

\* C11: rows are appended to the message table only by a request whose
\* generation step returned successfully (two rows, the user turn and the
\* assistant turn); a request whose generation failed appends nothing.
C11_SaveOnlyAfterSuccessfulGeneration ==
    [][messages' # messages =>
          \E r \in 1..MaxRequests :
              /\ requests[r].pc = "save"
              /\ requests[r].error \notin GenerationErrors
              /\ \E o \in outcomesOf(r) : o.kind = "response"
              /\ requests'[r].status = 200
              /\ Len(messages') = Len(messages) + 2
              /\ \A i \in 1..Len(messages') :
                    i > Len(messages) =>
                        messages'[i].conversationId = requests[r].conversationId]_vars

\* A request whose provider call failed is done and none of its turns is stored.
C11_Witness ==
    \E r \in 1..MaxRequests :
        /\ requests[r].pc = "done"
        /\ requests[r].error = "Invalid API key"
        /\ \E o \in outcomesOf(r) : o.kind = "error"
        /\ \A i \in 1..Len(messages) : messages[i].content # requests[r].message

\* The outcomes with which the provider call of request r failed
failuresOf(r) == {o \in outcomesOf(r) : o.kind = "error"}

\* C12: a provider failure becomes exactly one of four errors: status 401
\* the invalid-credentials error, 429 the provider-rate-limited error, 500
\* or above the provider-unavailable error, every other failure the
\* unknown-generation-failure error; failures of two kinds never end in
\* the same error.
C12_FourDistinctOutcomes ==
    LET kind(o) == IF o.hasStatus /\ o.status = 401 THEN "InvalidCredentials"
                   ELSE IF o.hasStatus /\ o.status = 429 THEN "ProviderRateLimited"
                   ELSE IF o.hasStatus /\ o.status >= 500 THEN "ProviderUnavailable"
                   ELSE "UnknownGenerationFailure"
        errorOf(k) == CASE k = "InvalidCredentials" -> "Invalid API key"
                        [] k = "ProviderRateLimited" -> "API rate limit reached"
                        [] k = "ProviderUnavailable" ->
                                "Claude API is temporarily unavailable"
                        [] k = "UnknownGenerationFailure" ->
                                "Failed to generate response"
        failed == {ro \in (1..MaxRequests) \X ProviderOutcomes :
                        ro[2] \in failuresOf(ro[1])}
    IN  /\ \A ro \in failed :
              /\ requests[ro[1]].pc = "done"
              /\ requests[ro[1]].error = errorOf(kind(ro[2]))
        /\ \A a, b \in failed :
              kind(a[2]) # kind(b[2]) => requests[a[1]].error # requests[b[1]].error

\* A request whose provider call failed with status 503 got the
\* provider-unavailable error.
C12_Witness ==
    \E r \in 1..MaxRequests :
        /\ requests[r].error = "Claude API is temporarily unavailable"
        /\ \E o \in failuresOf(r) : o.hasStatus /\ o.status = 503

answeredWithoutText(r) ==
    \E o \in outcomesOf(r) :
        /\ o.kind = "response"
        /\ (o.content = <<>> \/ o.content[1].type # "text")

\* C14: a request whose provider response has no text block (first block
\* not text, or no block at all) fails with the unknown-generation-failure
\* error: it does not go on to saveMessages with an empty reply, is not
\* answered with status 200, and no row of it is stored.
C14_NoTextBlockIsFailure ==
    \A r \in 1..MaxRequests :
        answeredWithoutText(r) =>
            /\ requests[r].pc = "done"
            /\ requests[r].error = "Failed to generate response"
            /\ requests[r].status # 200
            /\ \A i \in 1..Len(messages) :
                  messages[i].conversationId = requests[r].conversationId
                      => messages[i].content # <<>>

\* The status the endpoint owes to each error of generateChatbotResponse
statusOfKind(err) ==
    CASE err = "Chatbot is not configured" -> 401
      [] err = "Invalid API key" -> 401
      [] err = "API rate limit reached" -> 429
      [] err = "Claude API is temporarily unavailable" -> 503
      [] err = "Failed to generate response" -> 500

\* C15: the endpoint answers a generation failure with the status of its
\* kind: 401 for missing or invalid credentials, 429 for provider rate
\* limiting, 503 for provider unavailable, 500 for unknown failures.
C15_StatusPerFailureKind ==
    \A r \in 1..MaxRequests :
        (/\ requests[r].pc = "done"
         /\ requests[r].error \in GenerationErrors \ {"Conversation not found"})
            => requests[r].status = statusOfKind(requests[r].error)

\* C16: with the provider credential unset the process still serves
\* requests, and every call of generateChatbotResponse fails with the
\* missing-credentials error before the conversation is read, the document
\* table is searched or the provider is called.
C16_MissingKeyFailsFast ==
    ~apiKey =>
        /\ providerCalls = <<>>
        /\ \A r \in 1..MaxRequests :
              /\ requests[r].pc \in {"idle", "generate", "done"}
              /\ requests[r].history = <<>>
              /\ requests[r].searchResults = <<>>
              /\ requests[r].status = 500
                    => requests[r].error = "Chatbot is not configured"

\* Without credential, a request that names a conversation which does not
\* exist failed with the missing-credentials error.
C16_Witness ==
    /\ ~apiKey
    /\ \E r \in 1..MaxRequests :
          /\ requests[r].pc = "done"
          /\ requests[r].conversationId = UnknownConversationId
          /\ requests[r].error = "Chatbot is not configured"

\* The provider calls that request r made
callsOf(r) == {c \in 1..Len(providerCalls) : providerCalls[c].request = r}

\* C17: a request calls the provider at most once, whether the provider
\* call fails or saveMessages fails after a successful generation.
C17_AtMostOneProviderCall ==
    \A r \in 1..MaxRequests : Cardinality(callsOf(r)) <= 1

\* A request whose saveMessages failed after its one provider call is done.
C17_Witness ==
    \E r \in 1..MaxRequests :
        /\ requests[r].pc = "done"
        /\ requests[r].error = "createMany failed"
        /\ Cardinality(callsOf(r)) = 1

\* The status and body with which the endpoint answers a generation failure
generationFailureResponses ==
    {<<postFails(r, err)[r].status, postFails(r, err)[r].body>> :
        r \in 1..MaxRequests, err \in GenerationErrors}

\* C18: the response to a request whose generation succeeded and whose
\* saveMessages failed differs from the response to every generation
\* failure.
C18_PersistenceErrorDistinct ==
    \A r \in 1..MaxRequests :
        (requests[r].pc = "done" /\ requests[r].error = "createMany failed")
            => <<requests[r].status, requests[r].body>>
                    \notin generationFailureResponses

(***************************************************************************)
(* Claims about the rate guard                                             *)
(***************************************************************************)
\* C19 (under SpecRate): in one window, which lasts 60 seconds from the
\* first request it admitted, a user has at most 30 requests admitted; a
\* request that is not admitted is answered with status 429.
C19_AtMostThirtyPerWindow ==
    /\ \A u \in DOMAIN admissions : admissions[u].count <= 30
    /\ \A i \in 1..Len(requests) :
          requests[i].pc # "admitted"
              => /\ requests[i].status = 429
                 /\ requests[i].body = "Too many requests"

\* A user whose window admitted 30 requests was refused at the very end of
\* the window, 60 seconds after its first request.
C19_Witness ==
    \E u \in DOMAIN admissions :
        /\ admissions[u].count = 30
        /\ now = admissions[u].first + 60000
        /\ admissions[u].first > 0
        /\ requests = <<[IdleRequest EXCEPT !.pc = "done", !.userId = u,
                                            !.at = now, !.status = 429,
                                            !.body = "Too many requests"]>>

\* C20 (under Spec): a request refused by the rate guard is finished by the
\* refusal: createConversation made no conversation for it, it read no
\* history, searched no documents, never called the provider, and holds
\* neither a message to store nor a reply.
C20_RejectedBeforeAnyAccess ==
    \A r \in 1..MaxRequests :
        requests[r].status = 429 =>
            /\ requests[r].pc = "done"
            /\ requests[r].conversationId = NoConversationId
            /\ \A c \in conversations : c.id # <<"new", r>>
            /\ requests[r].history = <<>>
            /\ requests[r].searchResults = <<>>
            /\ callsOf(r) = {}
            /\ requests[r].message = <<>>
            /\ requests[r].response = <<>>

\* A user at the limit was refused, and the tables are as they were.
C20_Witness ==
    \E r \in 1..MaxRequests :
        /\ requests[r].status = 429
        /\ rateLimitMap[requests[r].userId].count = ChatRateMax
        /\ conversations = {[id |-> SeedConversationId, userId |-> "alice"]}
        /\ providerCalls = <<>>

\* C21 (under SpecRateFair): every record of rateLimitMap whose window has
\* expired is removed from the Map at some later time, whether or not its
\* user sends another request.
C21_ExpiredRecordsSwept ==
    \A u \in Users :
        (u \in DOMAIN rateLimitMap /\ now > rateLimitMap[u].resetTime)
            ~> (u \notin DOMAIN rateLimitMap)

\* The status and body of the response to request r
responseTo(r) == <<requests[r].status, requests[r].body>>

\* C22 (under Spec): the response to a request that the rate guard refused
\* differs from the response to a request whose provider call failed with
\* the provider's rate limit.
C22_LocalRejectionDistinct ==
    \A r \in 1..MaxRequests :
        /\ (requests[r].pc = "done" /\ requests[r].error = "API rate limit reached")
              => \A q \in 1..MaxRequests, u \in Users :
                    responseTo(r) # <<postRejects(q, u)[q].status,
                                      postRejects(q, u)[q].body>>
        /\ (requests[r].pc = "done" /\ requests = postRejects(r, requests[r].userId))
              => \A q \in 1..MaxRequests :
                    responseTo(r) #
                        <<postFails(q, "API rate limit reached")[q].status,
                          postFails(q, "API rate limit reached")[q].body>>

\* A request whose provider call failed with status 429 has been answered.
C22_Witness ==
    \E r \in 1..MaxRequests :
        /\ requests[r].pc = "done"
        /\ requests[r].error = "API rate limit reached"
        /\ \E o \in failuresOf(r) : o.hasStatus /\ o.status = 429

\* C23 (under Spec): retrieval that finds no document is no failure: the
\* request goes on from the search to the provider call, and that call
\* carries the fixed fallback sentence in place of the source excerpts.
C23_NoDocumentsIsNoError ==
    [][\A r \in 1..MaxRequests :
          /\ (requests[r].pc = "search" /\ requests'[r].pc # "search")
                => /\ requests'[r].pc = "provider"
                   /\ requests'[r].error = ""
          /\ (/\ requests[r].pc = "provider" /\ requests'[r].pc # "provider"
              /\ requests[r].searchResults = <<>>)
                => /\ Len(providerCalls') = Len(providerCalls) + 1
                   /\ providerCalls'[Len(providerCalls')].request = r
                   /\ providerCalls'[Len(providerCalls')].system =
                          [kind |-> "noDocuments", blocks |-> <<>>]]_vars

\* The provider was called with the fallback sentence for a message whose
\* keywords match no document, and answered.
C23_Witness ==
    \E c \in 1..Len(providerCalls) :
        /\ providerCalls[c].system.kind = "noDocuments"
        /\ extractKeywords(requests[providerCalls[c].request].message) # <<>>
        /\ requests[providerCalls[c].request].pc = "save"

\* C24 (under SpecScenario): whatever else the table holds, every active
\* document titled "Reasonable Accommodation Guidelines" with "schedule" and
\* "injury" in its body is among the results for the scenario query, with
\* a score above 0.
C24_AccommodationDocumentReturned ==
    phase = "searched" =>
        \A i \in 1..Len(documents) :
            documents[i].title = AccommodationKind.title =>
                \E k \in 1..Len(results) :
                    /\ results[k].docId = i
                    /\ results[k].score.num > 0

\* C25 (under SpecRate): a refused user is only delayed.  A request of a
\* user whose window's resetTime has passed is admitted and opens a window
\* with count 1 that ends 60 seconds later; a refused request leaves the
\* Map as it was, so it neither extends the window nor raises the count.
C25_RefusalOnlyDelays ==
    [][(now' = now /\ (requests' # requests \/ rateLimitMap' # rateLimitMap)) =>
          LET u == requests'[1].userId
          IN  /\ (u \in DOMAIN rateLimitMap /\ now > rateLimitMap[u].resetTime)
                    => /\ requests'[1].pc = "admitted"
                       /\ rateLimitMap'[u] = [count |-> 1, resetTime |-> now + 60000]
              /\ requests'[1].status = 429
                    => /\ rateLimitMap' = rateLimitMap
                       /\ now <= rateLimitMap[u].resetTime]_vars

\* A user was refused with 30 requests counted, the Map still holds that
\* count and that resetTime, and the resetTime has passed since.
C25_Witness ==
    \E u \in DOMAIN rateLimitMap :
        /\ requests[1].userId = u
        /\ requests[1].status = 429
        /\ requests[1].at <= rateLimitMap[u].resetTime
        /\ rateLimitMap[u].count = 30
        /\ now > rateLimitMap[u].resetTime

\* The record that a request of the given tier and identifier is counted in
recordOf(map, tier, identifier) ==
    IF storeKey(tier, identifier) \in DOMAIN map
    THEN <<map[storeKey(tier, identifier)]>>
    ELSE <<>>

\* C26 (under SpecStore): the tiers are enforced independently for one
\* client: a request handled under one tier leaves the count and the window
\* of every other tier of the same identifier as they were.
C26_TiersIndependent ==
    [][(now' = now /\ sweepDue' = sweepDue
            /\ (requests' # requests \/ store' # store)) =>
          \A tier \in Tiers \ {requests'[1].tier} :
              recordOf(store', tier, requests'[1].identifier)
                  = recordOf(store, tier, requests'[1].identifier)]_vars

(***************************************************************************)
(* Claims about the conversation store                                     *)
(***************************************************************************)
\* Rows i and i + 1 of the message table are the user turn and the assistant
\* turn that one saveMessages call of request r wrote
pairOf(i, r) ==
    /\ requests[r].status = 200
    /\ messages[i].role = "USER"
    /\ messages[i].content = requests[r].message
    /\ messages[i + 1].role = "ASSISTANT"
    /\ messages[i + 1].content = requests[r].response
    /\ messages[i + 1].sources = requests[r].searchResults
    /\ messages[i].conversationId = requests[r].conversationId
    /\ messages[i + 1].conversationId = requests[r].conversationId
    /\ messages[i].createdAt = messages[i + 1].createdAt

\* C27 (under SpecConcurrent): whatever the interleaving of the requests,
\* the stored turns are a sequence of pairs, a user turn followed by its
\* assistant turn, each pair written by one request: no user turn is
\* without its assistant turn and no turn of another request stands
\* between the two.
C27_TurnsStoredInPairs ==
    /\ Len(messages) % 2 = 0
    /\ \A k \in 1..(Len(messages) \div 2) :
          \/ /\ messages[2 * k - 1] = storedTurns(1)[1]
             /\ messages[2 * k] = storedTurns(1)[2]
          \/ \E r \in DOMAIN requests : pairOf(2 * k - 1, r)
    /\ Cardinality({r \in DOMAIN requests : requests[r].status = 200})
          = (Len(messages) \div 2) - 1

\* Two requests that both read the conversation before either of them
\* saved have both saved.
C27_Witness ==
    \E r1, r2 \in DOMAIN requests :
        /\ r1 # r2
        /\ requests[r1].status = 200 /\ requests[r2].status = 200
        /\ Len(requests[r1].history) = 2 /\ Len(requests[r2].history) = 2
        /\ requests[r1].message # requests[r2].message
        /\ Len(messages) = 6

\* Request r got as far as generateChatbotResponse and names a conversation
\* that does not exist or belongs to another user
namesForeignConversation(r) ==
    /\ requests[r].conversationId # NoConversationId
    /\ \A c \in conversations :
          c.id = requests[r].conversationId => c.userId # requests[r].userId

\* Every stored turn that a request wrote is in a conversation of that
\* request's user
turnsOnlyInOwnConversation ==
    \A k \in 1..(Len(messages) \div 2) :
        \/ /\ messages[2 * k - 1].conversationId = SeedConversationId
           /\ messages[2 * k - 1].content = storedTurns(1)[1].content
        \/ \E r \in 1..MaxRequests :
              /\ pairOf(2 * k - 1, r)
              /\ [id |-> requests[r].conversationId, userId |-> requests[r].userId]
                    \in conversations

\* C28 as stated: a request that names a conversation which does not exist
\* or is owned by another user fails with 'Conversation not found' before
\* any search or provider call, and turns are appended only to a
\* conversation of the requesting user.
C28_ForeignConversationNotFound ==
    /\ turnsOnlyInOwnConversation
    /\ \A r \in 1..MaxRequests :
          namesForeignConversation(r) =>
              /\ requests[r].pc \in {"generate", "done"}
              /\ requests[r].pc = "done" => requests[r].error = "Conversation not found"
              /\ requests[r].searchResults = <<>>
              /\ callsOf(r) = {}

\* C28 amended: the same, for requests made while the provider credential
\* is set; without the credential such a request fails with the
\* missing-credentials error, again before any search or provider call.
C28_ForeignConversationNotFoundWhenConfigured ==
    /\ turnsOnlyInOwnConversation
    /\ \A r \in 1..MaxRequests :
          namesForeignConversation(r) =>
              /\ requests[r].pc \in {"generate", "done"}
              /\ requests[r].pc = "done" =>
                    requests[r].error = (IF apiKey THEN "Conversation not found"
                                         ELSE "Chatbot is not configured")
              /\ requests[r].searchResults = <<>>
              /\ callsOf(r) = {}

\* With the credential set, bob named the conversation of alice and got
\* 'Conversation not found'.
C28_Witness ==
    /\ apiKey
    /\ \E r \in 1..MaxRequests :
          /\ requests[r].userId = "bob"
          /\ requests[r].conversationId = SeedConversationId
          /\ requests[r].pc = "done"
          /\ requests[r].error = "Conversation not found"

\* C29 (under Spec): a request that ended with an error of
\* generateChatbotResponse left the conversation store as it found it: no
\* conversation was created for it and none of its turns is stored.
C29_ErrorLeavesStoreUntouched ==
    \A r \in 1..MaxRequests :
        (requests[r].pc = "done" /\ requests[r].error \in GenerationErrors) =>
            /\ \A c \in conversations : c.id # <<"new", r>>
            /\ \A i \in 1..Len(messages) :
                  messages[i].conversationId # <<"new", r>>

\* The documents behind a list of search results
documentsOf(found) == {found[i].docId : i \in 1..Len(found)}

\* The ids of the rows whose active flag is set
activeIds == {documents[i].id : i \in {j \in 1..Len(documents) : documents[j].isActive}}

\* C30 (under SpecDeactivate): the search of a request returns only documents
\* whose active flag is set when the query runs, on the keyword path and on
\* the fallback path; the results of a request do not change after its
\* search, and the sources stored with its assistant turn are these
\* results.  So a document deactivated before a request searches is in
\* neither the results nor the stored sources of that request.
C30_OnlyActiveDocumentsReturned ==
    [][\A r \in 1..ConcurrentRequests :
          /\ requests[r].pc \in {"idle", "generate", "search"} =>
                documentsOf(requests'[r].searchResults) \subseteq activeIds
          /\ requests[r].pc \in {"provider", "save", "done"} =>
                requests'[r].searchResults = requests[r].searchResults
          /\ (requests[r].pc = "save" /\ requests'[r].status = 200) =>
                /\ Len(messages') = Len(messages) + 2
                /\ messages'[Len(messages')].role = "ASSISTANT"
                /\ messages'[Len(messages')].sources = requests[r].searchResults
                /\ messages'[Len(messages) + 1].sources = <<>>
    ]_vars

\* The source documents stored with the assistant turn of request r
storedSourcesOf(r) ==
    UNION {documentsOf(messages[i].sources) :
             i \in {j \in 1..Len(messages) :
                      /\ messages[j].conversationId = <<"new", r>>
                      /\ messages[j].role = "ASSISTANT"}}

\* The document with both keywords in its title was deactivated before either
\* request searched: the keyword search of one request and the fallback
\* search of the other both ran without it (each returned a document that
\* ranks below it), and both requests stored their sources.
C30_Witness ==
    /\ phase = "deactivate"
    /\ ~documents[2].isActive
    /\ \E r, q \in 1..ConcurrentRequests :
          /\ requests[r].status = 200 /\ requests[q].status = 200
          /\ extractKeywords(requests[r].message) # <<>>
          /\ extractKeywords(requests[q].message) = <<>>
          /\ storedSourcesOf(r) = {3}
          /\ storedSourcesOf(q) = {3}

====
